---------------------------- MODULE Spec2Model ----------------------------
(***************************************************************************)
(* VulnSight backend (src/Vulnsight101/backend/server.py): the /scan       *)
(* request of scan_url, the probe registry TOOLS, the invoker              *)
(* _call_tool_callable, classify_blocked_response, normalize_results, the  *)
(* risk computation and the enrichment and persistence steps.              *)
(*                                                                         *)
(* Representation of Python values:                                        *)
(*   str   a sequence of one-character strings ("bot" is <<"b","o","t">>), *)
(*         so that lower(), `in', replace(), title() and str() are         *)
(*         computed character by character;                                *)
(*   dict  a function whose domain is the set of its keys (keys are TLA+   *)
(*         strings); the type of a value is fixed by its key (KeyType);    *)
(*   None  the integer None among the values of the status keys;           *)
(*   a tool result is tagged: [isdict |-> TRUE, d |-> dict] for a mapping, *)
(*         [isdict |-> FALSE, d |-> [repr |-> str(value)]] for another     *)
(*         value.                                                          *)
(***************************************************************************)
EXTENDS Integers, Sequences, FiniteSets, TLC

(* ------------------------------ bounds -------------------------------- *)
\* number of registry entries of TOOLS that are modelled
NumTools == 2
\* longest list of vulnerabilities in a scan request
MaxReq == 2

(* --------------------------- Python strings --------------------------- *)
UPPER == <<"A", "B", "C", "D", "E", "F", "G", "H", "I", "J", "K", "L", "M", "N", "O", "P", "Q", "R", "S", "T", "U", "V", "W", "X", "Y", "Z">>
LOWER == <<"a", "b", "c", "d", "e", "f", "g", "h", "i", "j", "k", "l", "m", "n", "o", "p", "q", "r", "s", "t", "u", "v", "w", "x", "y", "z">>
DIGITS == <<"0", "1", "2", "3", "4", "5", "6", "7", "8", "9">>

\* the lower-case letter of each upper-case letter, and conversely
LOWER_OF == [c \in {UPPER[i] : i \in 1..Len(UPPER)} |->
                LOWER[CHOOSE i \in 1..Len(UPPER) : UPPER[i] = c]]
UPPER_OF == [c \in {LOWER[i] : i \in 1..Len(LOWER)} |->
                UPPER[CHOOSE i \in 1..Len(LOWER) : LOWER[i] = c]]

\* str.lower() and str.upper() on one character
LowerChar(c) == IF c \in DOMAIN LOWER_OF THEN LOWER_OF[c] ELSE c
UpperChar(c) == IF c \in DOMAIN UPPER_OF THEN UPPER_OF[c] ELSE c

\* s.lower()
PyLower(s) == [i \in 1..Len(s) |-> LowerChar(s[i])]

\* sub in s
PyIn(sub, s) ==
    \E i \in 1..(Len(s) - Len(sub) + 1) : \A j \in 1..Len(sub) : s[i + j - 1] = sub[j]

\* str(n) for an integer n >= 0
RECURSIVE PyStrNat(_)
PyStrNat(n) ==
    IF n < 10 THEN <<DIGITS[n + 1]>>
    ELSE PyStrNat(n \div 10) \o <<DIGITS[(n % 10) + 1]>>

\* Python None where an integer may stand (status_code of a result)
None == -1

\* str(v) of an int-or-None value
PyStrInt(v) == IF v = None THEN <<"N", "o", "n", "e">> ELSE PyStrNat(v)

\* d.get(k, default)
Get(d, k, default) == IF k \in DOMAIN d THEN d[k] ELSE default

\* the empty dict {}
EmptyDict == [k \in {} |-> 0]

(* ---------------------- classify_blocked_response --------------------- *)
\* the keyword list of the loop, in its order
BLOCK_KEYWORDS ==
    << <<"c", "a", "p", "t", "c", "h", "a">>,
       <<"v", "e", "r", "i", "f", "y", " ", "y", "o", "u", " ", "a", "r", "e", " ", "h", "u", "m", "a", "n">>,
       <<"c", "l", "o", "u", "d", "f", "l", "a", "r", "e">>,
       <<"b", "o", "t">>,
       <<"c", "h", "a", "l", "l", "e", "n", "g", "e">>,
       <<"a", "c", "c", "e", "s", "s", " ", "d", "e", "n", "i", "e", "d">> >>

\* "Target likely blocked scan / WAF protection triggered"
BLOCKED_ERROR == <<"T", "a", "r", "g", "e", "t", " ", "l", "i", "k", "e", "l", "y", " ", "b", "l", "o", "c", "k", "e", "d", " ", "s", "c", "a", "n", " ", "/", " ", "W", "A", "F", " ", "p", "r", "o", "t", "e", "c", "t", "i", "o", "n", " ", "t", "r", "i", "g", "g", "e", "r", "e", "d">>
\* "Unknown"
SEV_UNKNOWN == <<"U", "n", "k", "n", "o", "w", "n">>
\* "Scan could not retrieve headers/content due to bot protection/firewall."
BLOCKED_DESCRIPTION == <<"S", "c", "a", "n", " ", "c", "o", "u", "l", "d", " ", "n", "o", "t", " ", "r", "e", "t", "r", "i", "e", "v", "e", " ", "h", "e", "a", "d", "e", "r", "s", "/", "c", "o", "n", "t", "e", "n", "t", " ", "d", "u", "e", " ", "t", "o", " ", "b", "o", "t", " ", "p", "r", "o", "t", "e", "c", "t", "i", "o", "n", "/", "f", "i", "r", "e", "w", "a", "l", "l", ".">>
\* "Manual verification required; optionally use browser-based scan mode."
BLOCKED_FIX == <<"M", "a", "n", "u", "a", "l", " ", "v", "e", "r", "i", "f", "i", "c", "a", "t", "i", "o", "n", " ", "r", "e", "q", "u", "i", "r", "e", "d", ";", " ", "o", "p", "t", "i", "o", "n", "a", "l", "l", "y", " ", "u", "s", "e", " ", "b", "r", "o", "w", "s", "e", "r", "-", "b", "a", "s", "e", "d", " ", "s", "c", "a", "n", " ", "m", "o", "d", "e", ".">>

\* truthiness of an int-or-None value
TruthyInt(v) == v # None /\ v # 0

\* status = tool_result.get("status_code") or tool_result.get("response_status_code")
StatusOf(d) ==
    IF TruthyInt(Get(d, "status_code", None)) THEN d["status_code"]
    ELSE Get(d, "response_status_code", None)

\* text_snippet = tool_result.get("text_snippet", "") or tool_result.get("body_snippet", "")
SnippetOf(d) ==
    IF Get(d, "text_snippet", <<>>) # <<>> THEN d["text_snippet"]
    ELSE Get(d, "body_snippet", <<>>)

\* the keyword loop: the keywords from position i on that occur in lower_text
RECURSIVE KeywordReasons(_, _)
KeywordReasons(lower_text, i) ==
    IF i > Len(BLOCK_KEYWORDS) THEN <<>>
    ELSE (IF PyIn(BLOCK_KEYWORDS[i], lower_text) THEN <<BLOCK_KEYWORDS[i]>> ELSE <<>>)
         \o KeywordReasons(lower_text, i + 1)

\* blocked_reasons of a first-match-wins classifier: the status reason, or
\* else the first keyword that occurs
BlockedReasonsFirstMatch(d) ==
    LET status == StatusOf(d)
        text_snippet == SnippetOf(d)
        kws == IF text_snippet # <<>> THEN KeywordReasons(PyLower(text_snippet), 1) ELSE <<>>
    IN  IF status \in {403, 429} THEN <<<<"H", "T", "T", "P", " ">> \o PyStrInt(status)>>
        ELSE IF kws = <<>> THEN <<>> ELSE <<Head(kws)>>

\* blocked_reasons as built by lines 142-149
BlockedReasons(d) ==
    LET status == StatusOf(d)
        text_snippet == SnippetOf(d)
    IN  (IF status \in {403, 429} THEN <<<<"H", "T", "T", "P", " ">> \o PyStrInt(status)>> ELSE <<>>)
        \o (IF text_snippet # <<>> THEN KeywordReasons(PyLower(text_snippet), 1) ELSE <<>>)

\* a classifier that replaces every mapping, also when no reason fired
ClassifyAlwaysReplaces(tool_result) ==
    IF ~tool_result.isdict THEN tool_result
    ELSE [isdict |-> TRUE,
          d |-> [error |-> BLOCKED_ERROR,
                 severity |-> SEV_UNKNOWN,
                 description |-> BLOCKED_DESCRIPTION,
                 fix |-> BLOCKED_FIX,
                 references |-> <<>>,
                 _meta |-> Get(tool_result.d, "_meta", EmptyDict),
                 blocked_reasons |-> BlockedReasons(tool_result.d)]]

\* a classifier whose blocked payload keeps the severity of the probe and
\* starts from an empty _meta
ClassifyKeepsSeverity(tool_result) ==
    IF ~tool_result.isdict THEN tool_result
    ELSE IF BlockedReasons(tool_result.d) # <<>>
    THEN [isdict |-> TRUE,
          d |-> [error |-> BLOCKED_ERROR,
                 severity |-> Get(tool_result.d, "severity", SEV_UNKNOWN),
                 description |-> BLOCKED_DESCRIPTION,
                 fix |-> BLOCKED_FIX,
                 references |-> <<>>,
                 _meta |-> EmptyDict,
                 blocked_reasons |-> BlockedReasons(tool_result.d)]]
    ELSE tool_result

\* lines 136-160
classify_blocked_response(tool_result) ==
    IF ~tool_result.isdict THEN tool_result
    ELSE LET d == tool_result.d
             blocked_reasons == BlockedReasons(d)
         IN  IF blocked_reasons # <<>>
             THEN [isdict |-> TRUE,
                   d |-> [error |-> BLOCKED_ERROR,
                          severity |-> SEV_UNKNOWN,
                          description |-> BLOCKED_DESCRIPTION,
                          fix |-> BLOCKED_FIX,
                          references |-> <<>>,
                          _meta |-> Get(d, "_meta", EmptyDict),
                          blocked_reasons |-> blocked_reasons]]
             ELSE tool_result

(* ------------------------- str(data) rendering ------------------------ *)
\* Python None where a str may stand (session.get("email"), logged_in_as)
NoneStr == <<"None">>

\* repr(s) of a str without backslashes or control characters: single
\* quotes, or double quotes when s holds a single quote and no double quote
PyReprStr(s) ==
    LET q == IF (\E i \in 1..Len(s) : s[i] = "'") /\ ~(\E i \in 1..Len(s) : s[i] = "\"")
             THEN "\"" ELSE "'"
    IN  <<q>> \o s \o <<q>>

\* repr(v) of a value that is a str or None
PyReprStrOrNone(v) == IF v = NoneStr THEN <<"N", "o", "n", "e">> ELSE PyReprStr(v)

\* ", ".join(parts)
RECURSIVE PyJoin(_)
PyJoin(parts) ==
    IF parts = <<>> THEN <<>>
    ELSE IF Len(parts) = 1 THEN parts[1]
    ELSE parts[1] \o <<",", " ">> \o PyJoin(Tail(parts))

\* repr of a list of str
PyReprList(l) == <<"[">> \o PyJoin([i \in 1..Len(l) |-> PyReprStr(l[i])]) \o <<"]">>

\* the keys a result may carry, in the order they are rendered, and the
\* Python type of the value under each key
KEY_ORDER == <<"error", "details", "name", "severity", "description", "fix",
               "references", "status_code", "response_status_code",
               "text_snippet", "body_snippet", "_meta", "blocked_reasons",
               "scan_duration_ms", "module_callable", "probe">>
KeyType(k) ==
    CASE k \in {"status_code", "response_status_code", "scan_duration_ms"} -> "int"
      [] k \in {"references", "blocked_reasons"} -> "list"
      [] k \in {"_meta", "probe"} -> "dict"
      [] OTHER -> "str"

\* the character sequence of a key
KeyChars(k) ==
    CASE k = "error" -> <<"e", "r", "r", "o", "r">>
      [] k = "details" -> <<"d", "e", "t", "a", "i", "l", "s">>
      [] k = "name" -> <<"n", "a", "m", "e">>
      [] k = "severity" -> <<"s", "e", "v", "e", "r", "i", "t", "y">>
      [] k = "description" -> <<"d", "e", "s", "c", "r", "i", "p", "t", "i", "o", "n">>
      [] k = "fix" -> <<"f", "i", "x">>
      [] k = "references" -> <<"r", "e", "f", "e", "r", "e", "n", "c", "e", "s">>
      [] k = "status_code" -> <<"s", "t", "a", "t", "u", "s", "_", "c", "o", "d", "e">>
      [] k = "response_status_code" -> <<"r", "e", "s", "p", "o", "n", "s", "e", "_", "s", "t", "a", "t", "u", "s", "_", "c", "o", "d", "e">>
      [] k = "text_snippet" -> <<"t", "e", "x", "t", "_", "s", "n", "i", "p", "p", "e", "t">>
      [] k = "body_snippet" -> <<"b", "o", "d", "y", "_", "s", "n", "i", "p", "p", "e", "t">>
      [] k = "_meta" -> <<"_", "m", "e", "t", "a">>
      [] k = "blocked_reasons" -> <<"b", "l", "o", "c", "k", "e", "d", "_", "r", "e", "a", "s", "o", "n", "s">>
      [] k = "scan_duration_ms" -> <<"s", "c", "a", "n", "_", "d", "u", "r", "a", "t", "i", "o", "n", "_", "m", "s">>
      [] k = "module_callable" -> <<"m", "o", "d", "u", "l", "e", "_", "c", "a", "l", "l", "a", "b", "l", "e">>
      [] k = "probe" -> <<"p", "r", "o", "b", "e">>

\* the keys of d in rendering order
KeysOf(d) == SelectSeq(KEY_ORDER, LAMBDA k : k \in DOMAIN d)

\* repr of a dict whose values are str, None, int or list (the _meta of a
\* result, one entry of the probes of a path traversal result)
PyReprFlatDict(d) ==
    LET item(k) == PyReprStr(KeyChars(k)) \o <<":", " ">> \o
                   (CASE KeyType(k) = "int" -> PyStrInt(d[k])
                      [] KeyType(k) = "list" -> PyReprList(d[k])
                      [] OTHER -> PyReprStrOrNone(d[k]))
        ks == KeysOf(d)
    IN  <<"{">> \o PyJoin([i \in 1..Len(ks) |-> item(ks[i])]) \o <<"}">>

\* repr of a result dict
PyReprDict(d) ==
    LET item(k) == PyReprStr(KeyChars(k)) \o <<":", " ">> \o
                   (CASE KeyType(k) = "int" -> PyStrInt(d[k])
                      [] KeyType(k) = "list" -> PyReprList(d[k])
                      [] KeyType(k) = "dict" -> PyReprFlatDict(d[k])
                      [] OTHER -> PyReprStrOrNone(d[k]))
        ks == KeysOf(d)
    IN  <<"{">> \o PyJoin([i \in 1..Len(ks) |-> item(ks[i])]) \o <<"}">>

\* str(data) of a tool result
PyStr(data) == IF data.isdict THEN PyReprDict(data.d) ELSE data.d.repr

(* -------------------------- normalize_results ------------------------- *)
IsLetter(c) == c \in DOMAIN LOWER_OF \/ c \in DOMAIN UPPER_OF

\* s.replace(old, new) for one-character old and new
PyReplaceChar(s, old, new) == [i \in 1..Len(s) |-> IF s[i] = old THEN new ELSE s[i]]

\* s.title(): a letter is upper-cased after a non-letter, lower-cased after a letter
PyTitle(s) ==
    [i \in 1..Len(s) |->
        IF i = 1 \/ ~IsLetter(s[i - 1]) THEN UpperChar(s[i]) ELSE LowerChar(s[i])]

\* "No description provided."
NO_DESCRIPTION == <<"N", "o", " ", "d", "e", "s", "c", "r", "i", "p", "t", "i", "o", "n", " ", "p", "r", "o", "v", "i", "d", "e", "d", ".">>
\* "No fix recommendation available."
NO_FIX == <<"N", "o", " ", "f", "i", "x", " ", "r", "e", "c", "o", "m", "m", "e", "n", "d", "a", "t", "i", "o", "n", " ", "a", "v", "a", "i", "l", "a", "b", "l", "e", ".">>
\* "Check backend service"
CHECK_BACKEND == <<"C", "h", "e", "c", "k", " ", "b", "a", "c", "k", "e", "n", "d", " ", "s", "e", "r", "v", "i", "c", "e">>
\* "ok" and "error", the two values of a finding's status
ST_OK == <<"o", "k">>
ST_ERROR == <<"e", "r", "r", "o", "r">>

\* the default references of a finding named name
DefaultReferences(name) ==
    << <<"O", "W", "A", "S", "P", " ">> \o name \o <<" ", "P", "r", "e", "v", "e", "n", "t", "i", "o", "n">>, <<"C", "W", "E", " ", "R", "e", "f", "e", "r", "e", "n", "c", "e">>, <<"N", "I", "S", "T", " ", "G", "u", "i", "d", "e", "l", "i", "n", "e", "s">> >>

\* a status that is "error" only for a mapping with a top-level error key
StatusByErrorKey(data) ==
    IF data.isdict /\ "error" \in DOMAIN data.d THEN ST_ERROR ELSE ST_OK

\* "ok" if "error" not in str(data).lower() else "error"
StatusOfData(data) == IF ~PyIn(<<"e", "r", "r", "o", "r">>, PyLower(PyStr(data))) THEN ST_OK ELSE ST_ERROR

\* one iteration of the loop of normalize_results: the finding of (vuln, data)
NormalizeOne(vuln, data) ==
    LET name0 == PyTitle(PyReplaceChar(vuln, "_", " "))
        references0 == DefaultReferences(name0)
        d == data.d
        isErr == data.isdict /\ "error" \in DOMAIN d
        isOk == data.isdict /\ "error" \notin DOMAIN d
    IN  [id |-> vuln,
         status |-> StatusOfData(data),
         name |-> IF isOk THEN Get(d, "name", name0) ELSE name0,
         severity |-> IF isErr THEN Get(d, "severity", SEV_UNKNOWN)
                      ELSE IF isOk THEN Get(d, "severity", SEV_UNKNOWN)
                      ELSE SEV_UNKNOWN,
         description |-> IF isErr THEN Get(d, "description", d["error"])
                         ELSE IF isOk THEN Get(d, "description", NO_DESCRIPTION)
                         ELSE NO_DESCRIPTION,
         fix |-> IF isErr THEN Get(d, "fix", CHECK_BACKEND)
                 ELSE IF isOk THEN Get(d, "fix", NO_FIX)
                 ELSE NO_FIX,
         references |-> IF isOk THEN Get(d, "references", references0) ELSE references0,
         details |-> data]

\* raw_results is an insertion-ordered dict: a sequence of [k, v] items with
\* distinct keys.  DictSet is raw_results[k] = v.
DictKeys(od) == {od[i].k : i \in 1..Len(od)}
DictSet(od, k, v) ==
    IF k \in DictKeys(od)
    THEN [i \in 1..Len(od) |-> IF od[i].k = k THEN [k |-> k, v |-> v] ELSE od[i]]
    ELSE Append(od, [k |-> k, v |-> v])

\* a normalization that writes the default severity back into the result
NormalizeFillsDetails(raw_results) ==
    [i \in 1..Len(raw_results) |->
        [NormalizeOne(raw_results[i].k, raw_results[i].v) EXCEPT
            !.details = IF raw_results[i].v.isdict
                        THEN [isdict |-> TRUE,
                              d |-> raw_results[i].v.d @@ [severity |-> SEV_UNKNOWN]]
                        ELSE raw_results[i].v]]

\* lines 162-191
normalize_results(raw_results) ==
    [i \in 1..Len(raw_results) |-> NormalizeOne(raw_results[i].k, raw_results[i].v)]

(* --------------------------- risk computation ------------------------- *)
\* "High", "Low", "Medium", "Unknown"
LEVEL_HIGH == <<"H", "i", "g", "h">>
LEVEL_LOW == <<"L", "o", "w">>
LEVEL_MEDIUM == <<"M", "e", "d", "i", "u", "m">>
LEVEL_UNKNOWN == <<"U", "n", "k", "n", "o", "w", "n">>

\* sum(1 for r in normalized if r.get("severity", "").lower() in ("critical", "high"))
HighCount(normalized) ==
    Cardinality({i \in 1..Len(normalized) :
                    PyLower(normalized[i].severity) \in {<<"c", "r", "i", "t", "i", "c", "a", "l">>, <<"h", "i", "g", "h">>}})

Min(a, b) == IF a < b THEN a ELSE b

\* r.get("severity", "").lower() raises AttributeError for a severity that is
\* not a str; the exception leaves the sum
LowerRaises(normalized) ==
    \E i \in 1..Len(normalized) : normalized[i].severity = NoneStr

\* a risk computation whose level is High only above three such findings
RiskHighAboveThree(normalized) ==
    IF LowerRaises(normalized)
    THEN [risk_score |-> 0, risk_level |-> LEVEL_UNKNOWN]
    ELSE [risk_score |-> Min(100, HighCount(normalized) * 10),
          risk_level |-> IF HighCount(normalized) > 3 THEN LEVEL_HIGH
                         ELSE IF HighCount(normalized) = 0 THEN LEVEL_LOW
                         ELSE LEVEL_MEDIUM]

\* lines 454-465: (risk_score, risk_level) of the normalized findings
Risk(normalized) ==
    IF LowerRaises(normalized)
    THEN [risk_score |-> 0, risk_level |-> LEVEL_UNKNOWN]
    ELSE LET high_count == HighCount(normalized)
         IN  [risk_score |-> Min(100, high_count * 10),
              risk_level |-> IF high_count >= 3 THEN LEVEL_HIGH
                             ELSE IF high_count = 0 THEN LEVEL_LOW
                             ELSE LEVEL_MEDIUM]

(* ------------------------------ registry ------------------------------ *)
\* the TOOLS mapping, in its order: ProbeId -> module path
TOOLS_TABLE ==
    << [k |-> <<"c", "l", "i", "c", "k", "j", "a", "c", "k", "i", "n", "g">>,      module |-> <<"T", "o", "o", "l", "s", ".", "C", "l", "i", "c", "k", "J", "a", "c", "k", "i", "n", "g", "_", "T", "e", "s", "t", "e", "r">>],
       [k |-> <<"c", "o", "r", "s">>,              module |-> <<"T", "o", "o", "l", "s", ".", "C", "O", "R", "S", "_", "d", "e", "t", "e", "c", "t", "i", "o", "n">>],
       [k |-> <<"d", "i", "r", "e", "c", "t", "o", "r", "y", "_", "l", "i", "s", "t", "i", "n", "g">>, module |-> <<"T", "o", "o", "l", "s", ".", "D", "i", "r", "e", "c", "t", "o", "r", "y", "_", "L", "i", "s", "t", "i", "n", "g", "_", "C", "h", "e", "c", "k">>],
       [k |-> <<"h", "t", "t", "p", "_", "h", "e", "a", "d", "e", "r", "s">>,      module |-> <<"T", "o", "o", "l", "s", ".", "H", "T", "T", "P", "_", "S", "e", "c", "u", "r", "i", "t", "y", "_", "H", "e", "a", "d", "e", "r", "_", "A", "n", "a", "l", "y", "s", "i", "s">>],
       [k |-> <<"i", "n", "s", "e", "c", "u", "r", "e", "_", "c", "o", "o", "k", "i", "e", "s">>,  module |-> <<"T", "o", "o", "l", "s", ".", "M", "i", "s", "s", "i", "n", "g", "_", "C", "o", "o", "k", "i", "e", "s">>],
       [k |-> <<"o", "p", "e", "n", "_", "r", "e", "d", "i", "r", "e", "c", "t">>,     module |-> <<"T", "o", "o", "l", "s", ".", "O", "p", "e", "n", "R", "e", "d", "i", "r", "e", "c", "t">>],
       [k |-> <<"o", "u", "t", "d", "a", "t", "e", "d", "_", "s", "o", "f", "t", "w", "a", "r", "e">>, module |-> <<"T", "o", "o", "l", "s", ".", "o", "u", "t", "d", "a", "t", "e", "s", "_", "s", "o", "f", "t", "w", "a", "r", "e">>],
       [k |-> <<"i", "n", "f", "o", "_", "d", "i", "s", "c", "l", "o", "s", "u", "r", "e">>,   module |-> <<"T", "o", "o", "l", "s", ".", "S", "e", "n", "s", "i", "t", "i", "v", "e", "_", "I", "n", "f", "o", "_", "D", "i", "s", "c", "l", "o", "s", "u", "r", "e">>],
       [k |-> <<"s", "s", "l", "_", "t", "l", "s">>,           module |-> <<"T", "o", "o", "l", "s", ".", "S", "S", "L", "_", "T", "L", "S", "_", "c", "h", "e", "c", "k", "e", "r">>],
       [k |-> <<"x", "s", "s">>,               module |-> <<"T", "o", "o", "l", "s", ".", "X", "S", "S">>],
       [k |-> <<"s", "q", "l", "_", "i", "n", "j", "e", "c", "t", "i", "o", "n">>,     module |-> <<"T", "o", "o", "l", "s", ".", "S", "Q", "L", "_", "i", "n", "j", "e", "c", "t", "i", "o", "n">>],
       [k |-> <<"p", "a", "t", "h", "_", "t", "r", "a", "v", "e", "r", "s", "a", "l">>,    module |-> <<"T", "o", "o", "l", "s", ".", "p", "a", "t", "h", "t", "r", "a", "v", "e", "r", "s", "a", "l">>] >>

\* the registry of the model: the first NumTools entries of the mapping
TOOLS == SubSeq(TOOLS_TABLE, 1, NumTools)

\* list(TOOLS.keys())
ToolKeys == [i \in 1..Len(TOOLS) |-> TOOLS[i].k]

\* vuln in TOOLS, and TOOLS.get(vuln)
Registered(vuln) == \E i \in 1..Len(TOOLS) : TOOLS[i].k = vuln
ModulePath(vuln) == TOOLS[CHOOSE i \in 1..Len(TOOLS) : TOOLS[i].k = vuln].module

\* a ProbeId a caller may ask for that the registry does not hold
UNREGISTERED_ID == <<"c", "s", "r", "f">>

(* ---------------------------- probe outcomes -------------------------- *)
Dict(d) == [isdict |-> TRUE, d |-> d]
NonDict(repr) == [isdict |-> FALSE, d |-> [repr |-> repr]]
\* no value yet
NoResult == NonDict(<<>>)
NoExc == [type |-> "", msg |-> <<>>]
Exc(type, msg) == [type |-> type, msg |-> msg]

\* what a probe returns when it finds the weakness (ClickJacking_Tester)
R_VULNERABLE ==
    Dict([name |-> <<"C", "l", "i", "c", "k", "j", "a", "c", "k", "i", "n", "g">>,
          severity |-> <<"H", "I", "G", "H">>,
          description |-> <<"X", "-", "F", "r", "a", "m", "e", "-", "O", "p", "t", "i", "o", "n", "s", ":", " ", "M", "I", "S", "S", "I", "N", "G">>,
          fix |-> <<"S", "e", "t", " ", "X", "-", "F", "r", "a", "m", "e", "-", "O", "p", "t", "i", "o", "n", "s", " ", "t", "o", " ", "D", "E", "N", "Y">>,
          references |-> << <<"h", "t", "t", "p", "s", ":", "/", "/", "o", "w", "a", "s", "p", ".", "o", "r", "g">> >>,
          status_code |-> 200,
          text_snippet |-> <<"<", "h", "1", ">", "W", "e", "l", "c", "o", "m", "e", "<", "/", "h", "1", ">">>,
          _meta |-> [scan_duration_ms |-> 12]])

\* what a probe returns when the target answers 403 with a CAPTCHA page
R_WAF ==
    Dict([name |-> <<"C", "l", "i", "c", "k", "j", "a", "c", "k", "i", "n", "g">>,
          severity |-> <<"H", "I", "G", "H">>,
          description |-> <<"X", "-", "F", "r", "a", "m", "e", "-", "O", "p", "t", "i", "o", "n", "s", ":", " ", "M", "I", "S", "S", "I", "N", "G">>,
          fix |-> <<"S", "e", "t", " ", "X", "-", "F", "r", "a", "m", "e", "-", "O", "p", "t", "i", "o", "n", "s", " ", "t", "o", " ", "D", "E", "N", "Y">>,
          references |-> << <<"h", "t", "t", "p", "s", ":", "/", "/", "o", "w", "a", "s", "p", ".", "o", "r", "g">> >>,
          status_code |-> 403,
          text_snippet |-> <<"S", "o", "l", "v", "e", " ", "t", "h", "e", " ", "C", "A", "P", "T", "C", "H", "A">>,
          _meta |-> [scan_duration_ms |-> 7]])

\* what a probe returns when its request fails
R_REQUEST_FAILED ==
    Dict([error |-> <<"R", "e", "q", "u", "e", "s", "t", " ", "f", "a", "i", "l", "e", "d">>, details |-> <<"t", "i", "m", "e", "d", " ", "o", "u", "t">>])

\* the outcomes of one run of a probe's body: it returns a result or raises
Return(r) == [kind |-> "return", result |-> r, exc |-> NoExc]
Raise(e) == [kind |-> "raise", result |-> NoResult, exc |-> e]
BodyOutcomes ==
    { Return(R_VULNERABLE), Return(R_WAF), Return(R_REQUEST_FAILED),
      Raise(Exc("TypeError", <<"b", "a", "d", " ", "o", "p", "e", "r", "a", "n", "d">>)),
      Raise(Exc("ValueError", <<"b", "o", "o", "m">>)) }

\* the calling conventions tried by _call_tool_callable, in its order:
\* 1 callable_obj(url), 2 callable_obj(url, timeout=10), 3 callable_obj(target=url)
\* Every registered module defines run(url: str, timeout: int = 10)
RUN_ACCEPTS == {1, 2}

\* TypeError raised by the call itself when the signature rejects the arguments
BIND_ERROR == Exc("TypeError", <<"u", "n", "e", "x", "p", "e", "c", "t", "e", "d", " ", "k", "e", "y", "w", "o", "r", "d", " ", "a", "r", "g", "u", "m", "e", "n", "t">>)

\* one call: the body runs only if the convention is accepted
CallOutcome(accepts, k, body) == IF k \in accepts THEN body ELSE Raise(BIND_ERROR)

IsTypeError(o) == o.kind = "raise" /\ o.exc.type = "TypeError"

\* _call_tool_callable: bodies[k] is what the body does if the k-th call runs it.
\* out is the value returned or the exception that leaves the function,
\* started the number of times the body was started.
_call_tool_callable(accepts, bodies) ==
    LET o1 == CallOutcome(accepts, 1, bodies[1])
        o2 == CallOutcome(accepts, 2, bodies[2])
        o3 == CallOutcome(accepts, 3, bodies[3])
    IN  IF ~IsTypeError(o1)
        THEN [out |-> o1, started |-> Cardinality({1} \cap accepts)]
        ELSE IF ~IsTypeError(o2)
        THEN [out |-> o2, started |-> Cardinality({1, 2} \cap accepts)]
        ELSE [out |-> o3, started |-> Cardinality({1, 2, 3} \cap accepts)]

(* --------------------------- run_tool_async --------------------------- *)
\* f"Tool '{vuln}' not found"
NotFoundMsg(vuln) == <<"T", "o", "o", "l", " ", "'">> \o vuln \o <<"'", " ", "n", "o", "t", " ", "f", "o", "u", "n", "d">>
\* f"ImportError: {str(e)}" for ModuleNotFoundError
ImportErrorMsg(module_path) == <<"I", "m", "p", "o", "r", "t", "E", "r", "r", "o", "r", ":", " ", "N", "o", " ", "m", "o", "d", "u", "l", "e", " ", "n", "a", "m", "e", "d", " ", "'">> \o module_path \o <<"'">>
\* f"Tool run failed: {str(e)}"
RunFailedMsg(msg) == <<"T", "o", "o", "l", " ", "r", "u", "n", " ", "f", "a", "i", "l", "e", "d", ":", " ">> \o msg

\* a task of run_tool_async: st is "thread" while _call_tool_callable runs in
\* the worker thread, "done" when the coroutine has returned (vuln, result),
\* "raised" when an exception has left it
Task(vuln, st, result, exc, started) ==
    [vuln |-> vuln, st |-> st, result |-> result, exc |-> exc, started |-> started]

\* f"No callable found in {module_path}"
NoCallableMsg(module_path) == <<"N", "o", " ", "c", "a", "l", "l", "a", "b", "l", "e", " ", "f", "o", "u", "n", "d", " ", "i", "n", " ">> \o module_path

\* the names looked up in the module, in order, and the functions among
\* them that every registered module defines
CALLABLE_NAMES == <<"run", "scan", "main", "check">>
ModuleAttrs(module_path) == {"scan", "run"}
HasCallable(module_path) ==
    \E i \in 1..Len(CALLABLE_NAMES) : CALLABLE_NAMES[i] \in ModuleAttrs(module_path)

\* lines 294-311: the coroutine up to its await
StartTask(vuln, import_ok) ==
    IF ~Registered(vuln)
    THEN Task(vuln, "done", Dict([error |-> NotFoundMsg(vuln)]), NoExc, 0)
    ELSE IF ~import_ok
    THEN Task(vuln, "done", Dict([error |-> ImportErrorMsg(ModulePath(vuln))]), NoExc, 0)
    ELSE IF ~HasCallable(ModulePath(vuln))
    THEN Task(vuln, "done", Dict([error |-> NoCallableMsg(ModulePath(vuln))]), NoExc, 0)
    ELSE Task(vuln, "thread", NoResult, NoExc, 0)

\* lines 311-313: the thread ends and the coroutine resumes
EndTask(t, r) ==
    IF r.out.kind = "return"
    THEN Task(t.vuln, "done", classify_blocked_response(r.out.result), NoExc, r.started)
    ELSE Task(t.vuln, "raised", NoResult, r.out.exc, r.started)

(* ------------------------------- scan_url ----------------------------- *)
VARIABLES
    pc,               \* position of the scan_url coroutine
    url,              \* payload.url as parsed by urlparse: [scheme, netloc]
    vulnerabilities,  \* payload.vulnerabilities
    session,          \* request.session
    conn,             \* TRUE iff the process-wide MySQL connection was opened
    user_id,          \* user_id of scan_url (None for a guest)
    selected_vulns,   \* selected_vulns
    task,             \* the tasks gathered by run_all_tools, in list order
    gather,           \* the future of asyncio.gather
    raw_results,      \* raw_results, an insertion-ordered dict
    urlscan_data,     \* urlscan_data
    llm_summary_text, \* llm_summary_text
    tools_list,       \* tools_list of explain_vulnerabilities_text ([] before line 380)
    response,         \* the JSON body sent to the caller
    scan_table,       \* the committed rows of table scan
    calls,            \* how often each collaborator was called
    arg,              \* the argument of a function applied on its own
    ret,              \* the value it returned
    req,              \* the /scan requests in progress at once, each with its position
    conn_ops          \* the operations in progress on the connection conn

scanvars == <<url, vulnerabilities, session, conn, user_id, selected_vulns, task,
              gather, raw_results, urlscan_data, llm_summary_text, tools_list, response,
              scan_table, calls>>
fnvars == <<arg, ret>>
dbvars == <<req, conn_ops>>
vars == <<pc, scanvars, fnvars, dbvars>>

\* urlparse(url): a target with scheme and host, and targets lacking one or both
TARGETS ==
    { [scheme |-> <<"h", "t", "t", "p", "s">>, netloc |-> <<"e", "x", "a", "m", "p", "l", "e", ".", "c", "o", "m">>],
      [scheme |-> <<>>,      netloc |-> <<>>],
      [scheme |-> <<"h", "t", "t", "p", "s">>, netloc |-> <<>>],
      [scheme |-> <<>>,      netloc |-> <<"e", "x", "a", "m", "p", "l", "e", ".", "c", "o", "m">>] }

\* not (parsed.scheme and parsed.netloc), with a check of the scheme alone
InvalidTargetSchemeOnly(u) == ~(u.scheme # <<>>)

\* not (parsed.scheme and parsed.netloc)
InvalidTarget(u) == ~(u.scheme # <<>> /\ u.netloc # <<>>)

\* the rows of table users
USERS == { [id |-> 1, email |-> <<"a", "l", "i", "c", "e", "@", "e", "x", "a", "m", "p", "l", "e", ".", "c", "o", "m">>] }

\* request.session: empty, of a user of the table, or stale
SESSIONS ==
    { EmptyDict,
      [email |-> <<"a", "l", "i", "c", "e", "@", "e", "x", "a", "m", "p", "l", "e", ".", "c", "o", "m">>, user_id |-> 1],
      [email |-> <<"a", "l", "i", "c", "e", "@", "e", "x", "a", "m", "p", "l", "e", ".", "c", "o", "m">>, user_id |-> 2] }

\* the ids a request may name (a registered one and an unregistered one; the
\* empty list selects every registered id), and the lists a request may carry
REQUEST_IDS == {ToolKeys[1], UNREGISTERED_ID}
REQUEST_LISTS == UNION { [1..n -> REQUEST_IDS] : n \in 0..MaxReq }

\* str(uuid.uuid4())
SCAN_UUID == <<"0", "b", "9", "f", "6", "c", "2", "e">>

NoCalls == [urlscan |-> 0, llm |-> 0, verify |-> 0, insert |-> 0]

Init ==
    /\ pc = "received"
    /\ url \in TARGETS
    /\ vulnerabilities \in REQUEST_LISTS
    /\ session \in SESSIONS
    /\ conn \in BOOLEAN
    /\ user_id = None
    /\ selected_vulns = <<>>
    /\ task = <<>>
    /\ gather = [st |-> "pending", exc |-> NoExc]
    /\ raw_results = <<>>
    /\ urlscan_data = EmptyDict
    /\ llm_summary_text = <<>>
    /\ tools_list = <<>>
    /\ response = EmptyDict
    /\ scan_table = <<>>
    /\ calls = NoCalls
    /\ req = <<>>
    /\ conn_ops = {}
    /\ arg = NoResult
    /\ ret = NoResult

\* a selection that takes every registered id whatever the request names
SelectedVulnsAll(vs) == ToolKeys

\* payload.vulnerabilities or list(TOOLS.keys())
SelectedVulns(vs) == IF vs # <<>> THEN vs ELSE ToolKeys

\* "Invalid URL provided"
INVALID_URL == <<"I", "n", "v", "a", "l", "i", "d", " ", "U", "R", "L", " ", "p", "r", "o", "v", "i", "d", "e", "d">>
\* the values of the status of a response
RESP_SUCCESS == <<"s", "u", "c", "c", "e", "s", "s">>
RESP_ERROR == <<"e", "r", "r", "o", "r">>

\* lines 316-329 and 349-350: validation of the target, choice of the probes,
\* read of the session
Receive ==
    /\ pc = "received"
    /\ selected_vulns' = SelectedVulns(vulnerabilities)
    /\ IF InvalidTarget(url)
       THEN /\ response' = [status |-> RESP_ERROR, message |-> INVALID_URL,
                            results |-> <<>>, urlscan |-> EmptyDict,
                            llm_summary |-> <<>>]
            /\ pc' = "failed"
       ELSE /\ response' = response
            /\ pc' = IF Get(session, "email", NoneStr) \notin {NoneStr, <<>>}
                        /\ TruthyInt(Get(session, "user_id", None)) /\ conn
                     THEN "verifying" ELSE "dispatch"
    /\ user_id' = None
    /\ UNCHANGED <<url, vulnerabilities, session, conn, task, gather, raw_results,
                   urlscan_data, llm_summary_text, tools_list, scan_table, calls>>
    /\ UNCHANGED <<fnvars, dbvars>>

\* the query matches on the email alone
VerifyRowByEmail(email, uid) ==
    IF \E r \in USERS : r.email = email THEN uid ELSE None

\* verify_user: SELECT id FROM users WHERE email=%s AND id=%s
VerifyRow(email, uid) ==
    IF \E r \in USERS : r.email = email /\ r.id = uid THEN uid ELSE None

\* lines 330-348: the query runs in a worker thread; it returns or raises
VerifyUser ==
    /\ pc = "verifying"
    /\ \E raises \in BOOLEAN :
          LET verified_id == VerifyRow(session.email, session.user_id)
          IN  IF ~raises /\ TruthyInt(verified_id)
              THEN user_id' = verified_id /\ session' = session
              ELSE user_id' = None /\ session' = EmptyDict
    /\ calls' = [calls EXCEPT !.verify = @ + 1]
    /\ pc' = "dispatch"
    /\ UNCHANGED <<url, vulnerabilities, conn, selected_vulns, task, gather,
                   raw_results, urlscan_data, llm_summary_text, tools_list, response, scan_table>>
    /\ UNCHANGED <<fnvars, dbvars>>

\* the future of gather(*tasks, return_exceptions=False) once exc has been
\* raised by a task (NoExc if none) and the tasks are ts: the first exception
\* is set on it at once, the results when every task is done
GatherAfter(g, ts, exc) ==
    IF g.st # "pending" THEN g
    ELSE IF exc # NoExc THEN [st |-> "exception", exc |-> exc]
    ELSE IF \A i \in 1..Len(ts) : ts[i].st = "done" THEN [st |-> "results", exc |-> NoExc]
    ELSE g

\* lines 353-355: run_all_tools creates one coroutine per selected id and
\* awaits gather; each coroutine runs up to its await of the worker thread
Dispatch ==
    /\ pc = "dispatch"
    /\ \E import_ok \in [1..Len(selected_vulns) -> BOOLEAN] :
          LET ts == [i \in 1..Len(selected_vulns) |->
                        StartTask(selected_vulns[i], import_ok[i])]
          IN  /\ task' = ts
              /\ gather' = GatherAfter(gather, ts, NoExc)
    /\ pc' = "gathering"
    /\ UNCHANGED <<url, vulnerabilities, session, conn, user_id, selected_vulns,
                   raw_results, urlscan_data, llm_summary_text, tools_list, response,
                   scan_table, calls>>
    /\ UNCHANGED <<fnvars, dbvars>>

\* line 311-313: the worker thread of task i runs _call_tool_callable to its
\* end, the coroutine classifies the result and returns
ProbeFinish(i) ==
    /\ i \in 1..Len(task)
    /\ task[i].st = "thread"
    /\ \E b1 \in BodyOutcomes :
       \E b2 \in (IF IsTypeError(b1) THEN BodyOutcomes ELSE {b1}) :
          LET r == _call_tool_callable(RUN_ACCEPTS, <<b1, b2, b2>>)
              t == EndTask(task[i], r)
              ts == [task EXCEPT ![i] = t]
          IN  /\ task' = ts
              /\ gather' = GatherAfter(gather, ts, t.exc)
    /\ UNCHANGED <<pc, url, vulnerabilities, session, conn, user_id, selected_vulns,
                   raw_results, urlscan_data, llm_summary_text, tools_list, response,
                   scan_table, calls>>
    /\ UNCHANGED <<fnvars, dbvars>>

\* {v: r for v, r in completed} without the overwrite of a repeated key
RECURSIVE CompletedListNoDedup(_)
CompletedListNoDedup(ts) ==
    IF ts = <<>> THEN <<>>
    ELSE Append(CompletedListNoDedup(SubSeq(ts, 1, Len(ts) - 1)),
                [k |-> ts[Len(ts)].vuln, v |-> ts[Len(ts)].result])

\* {v: r for v, r in completed}
RECURSIVE CompletedDict(_)
CompletedDict(ts) ==
    IF ts = <<>> THEN <<>>
    ELSE DictSet(CompletedDict(SubSeq(ts, 1, Len(ts) - 1)),
                 ts[Len(ts)].vuln, ts[Len(ts)].result)

\* the except branch leaving raw_results empty
RunFailedDictEmpty(vs, e) == <<>>

\* {v: {"error": f"Tool run failed: {str(e)}"} for v in selected_vulns}
RECURSIVE RunFailedDict(_, _)
RunFailedDict(vs, e) ==
    IF vs = <<>> THEN <<>>
    ELSE DictSet(RunFailedDict(SubSeq(vs, 1, Len(vs) - 1), e),
                 vs[Len(vs)], Dict([error |-> RunFailedMsg(e.msg)]))

\* lines 358-362: the await of run_all_tools returns or raises
FanIn ==
    /\ pc = "gathering"
    /\ gather.st # "pending"
    /\ raw_results' = IF gather.st = "results" THEN CompletedDict(task)
                      ELSE RunFailedDict(selected_vulns, gather.exc)
    /\ pc' = "urlscan"
    /\ UNCHANGED <<url, vulnerabilities, session, conn, user_id, selected_vulns,
                   task, gather, urlscan_data, llm_summary_text, tools_list, response,
                   scan_table, calls>>
    /\ UNCHANGED <<fnvars, dbvars>>

(* ---------------------- fetch_urlscan_data_async ---------------------- *)
\* number of polls of the result (range(5))
URLSCAN_POLLS == 5

URLSCAN_SOURCE == <<"u", "r", "l", "s", "c", "a", "n">>
URLSCAN_UUID == <<"7", "f", "3", "a">>

\* what urlscan.io does in one fetch: key is whether URLSCAN_API_KEY is set,
\* submit whether the POST succeeds, uuid whether its answer holds a uuid,
\* polls the status of each GET, raises the poll that raises (0 for none).
\* The worlds of a scan: no key, a result at the second poll, never a result.
URLSCAN_WORLDS ==
    { [key |-> FALSE, submit |-> TRUE, uuid |-> TRUE,
       polls |-> [i \in 1..URLSCAN_POLLS |-> 404], raises |-> 0],
      [key |-> TRUE, submit |-> TRUE, uuid |-> TRUE,
       polls |-> [i \in 1..URLSCAN_POLLS |-> IF i = 2 THEN 200 ELSE 404], raises |-> 0],
      [key |-> TRUE, submit |-> TRUE, uuid |-> TRUE,
       polls |-> [i \in 1..URLSCAN_POLLS |-> 404], raises |-> 0] }

UrlscanError(msg) == [error |-> msg, _source |-> URLSCAN_SOURCE]

\* a loop that polls once more before it gives up
RECURSIVE UrlscanPollOnceMore(_, _)
UrlscanPollOnceMore(w, i) ==
    IF i > URLSCAN_POLLS + 1
    THEN [data |-> [error |-> <<"U", "R", "L", "S", "c", "a", "n", " ", "r", "e", "s", "u", "l", "t", " ", "n", "o", "t", " ", "r", "e", "a", "d", "y">>, _source |-> URLSCAN_SOURCE,
                    uuid |-> URLSCAN_UUID],
          n |-> i - 1]
    ELSE IF w.raises = i
    THEN [data |-> UrlscanError(<<"R", "e", "a", "d", "T", "i", "m", "e", "o", "u", "t">>), n |-> i]
    ELSE IF i <= URLSCAN_POLLS /\ w.polls[i] = 200
    THEN [data |-> [verdict |-> <<"c", "l", "e", "a", "n">>, _source |-> URLSCAN_SOURCE], n |-> i]
    ELSE UrlscanPollOnceMore(w, i + 1)

\* the loop of lines 282-289 from poll i on; n counts the GETs sent
RECURSIVE UrlscanPoll(_, _)
UrlscanPoll(w, i) ==
    IF i > URLSCAN_POLLS
    THEN [data |-> [error |-> <<"U", "R", "L", "S", "c", "a", "n", " ", "r", "e", "s", "u", "l", "t", " ", "n", "o", "t", " ", "r", "e", "a", "d", "y">>, _source |-> URLSCAN_SOURCE,
                    uuid |-> URLSCAN_UUID],
          n |-> i - 1]
    ELSE IF w.raises = i
    THEN [data |-> UrlscanError(<<"R", "e", "a", "d", "T", "i", "m", "e", "o", "u", "t">>), n |-> i]
    ELSE IF w.polls[i] = 200
    THEN [data |-> [verdict |-> <<"c", "l", "e", "a", "n">>, _source |-> URLSCAN_SOURCE], n |-> i]
    ELSE UrlscanPoll(w, i + 1)

fetch_urlscan_data_async(w) ==
    IF ~w.key
    THEN [data |-> UrlscanError(<<"U", "R", "L", "S", "C", "A", "N", "_", "A", "P", "I", "_", "K", "E", "Y", " ", "n", "o", "t", " ", "c", "o", "n", "f", "i", "g", "u", "r", "e", "d">>), n |-> 0]
    ELSE IF ~w.submit
    THEN [data |-> UrlscanError(<<"4", "2", "9", " ", "T", "o", "o", " ", "M", "a", "n", "y", " ", "R", "e", "q", "u", "e", "s", "t", "s">>), n |-> 0]
    ELSE IF ~w.uuid
    THEN [data |-> UrlscanError(<<"F", "a", "i", "l", "e", "d", " ", "t", "o", " ", "g", "e", "t", " ", "u", "r", "l", "s", "c", "a", "n", " ", "U", "U", "I", "D">>), n |-> 0]
    ELSE UrlscanPoll(w, 1)

\* lines 365-369
FetchUrlscan ==
    /\ pc = "urlscan"
    /\ \E w \in URLSCAN_WORLDS : urlscan_data' = fetch_urlscan_data_async(w).data
    /\ calls' = [calls EXCEPT !.urlscan = @ + 1]
    /\ pc' = "explain"
    /\ UNCHANGED <<url, vulnerabilities, session, conn, user_id, selected_vulns,
                   task, gather, raw_results, llm_summary_text, tools_list, response, scan_table>>
    /\ UNCHANGED <<fnvars, dbvars>>

(* -------------------- explain_vulnerabilities_text -------------------- *)
\* s.strip() of blanks
RECURSIVE PyStrip(_)
PyStrip(s) ==
    IF s = <<>> THEN s
    ELSE IF Head(s) = " " THEN PyStrip(Tail(s))
    ELSE IF s[Len(s)] = " " THEN PyStrip(SubSeq(s, 1, Len(s) - 1))
    ELSE s

LLM_NOT_CONFIGURED == <<"L", "L", "M", " ", "n", "o", "t", " ", "c", "o", "n", "f", "i", "g", "u", "r", "e", "d", ".">>
LLM_FAILED == <<"F", "a", "i", "l", "e", "d", " ", "t", "o", " ", "g", "e", "n", "e", "r", "a", "t", "e", " ", "e", "x", "p", "l", "a", "n", "a", "t", "i", "o", "n", ".">>
LLM_NONE == <<"N", "o", " ", "e", "x", "p", "l", "a", "n", "a", "t", "i", "o", "n", " ", "g", "e", "n", "e", "r", "a", "t", "e", "d", ".">>
LLM_PARSE_ERROR == <<"F", "a", "i", "l", "e", "d", " ", "t", "o", " ", "p", "a", "r", "s", "e", " ", "L", "L", "M", " ", "r", "e", "s", "p", "o", "n", "s", "e", ".">>

\* what the Groq client does: key is whether GROQ_API_KEY is set; kind is
\* "raises" (the call raises), "content" (choices[0].message.content is
\* text), "text" (choices[0].text is text), "empty" (no choice, no
\* output_text), "unparsable" (reading the response raises).
\* The worlds of a scan: no key, a call that raises, an answer with content.
LLM_WORLDS ==
    { [key |-> FALSE, kind |-> "raises", text |-> <<>>],
      [key |-> TRUE, kind |-> "raises", text |-> <<>>],
      [key |-> TRUE, kind |-> "content", text |-> <<" ", "#", "#", "#", " ", "C", "l", "i", "c", "k", "j", "a", "c", "k", "i", "n", "g", " ">>] }

\* a tools_list that leaves out the findings of the probes that failed
ToolsListOkOnly(w, results) ==
    IF ~w.key THEN <<>>
    ELSE SelectSeq(normalize_results(results), LAMBDA f : f.status = ST_OK)

\* lines 375-380: tools_list = normalize_results(raw_results), unless the
\* function returned before for want of a key
ToolsList(w, results) == IF ~w.key THEN <<>> ELSE normalize_results(results)

explain_vulnerabilities_text(w, results) ==
    IF ~w.key THEN LLM_NOT_CONFIGURED
    ELSE IF w.kind = "raises" THEN LLM_FAILED
    ELSE IF w.kind = "unparsable" THEN LLM_PARSE_ERROR
    ELSE LET explanation_text == IF w.kind \in {"content", "text"} /\ w.text # <<>>
                                 THEN PyStrip(w.text) ELSE <<>>
         IN  IF explanation_text = <<>> THEN LLM_NONE ELSE explanation_text

\* line 450
Explain ==
    /\ pc = "explain"
    /\ \E w \in LLM_WORLDS :
          /\ llm_summary_text' = explain_vulnerabilities_text(w, raw_results)
          /\ tools_list' = ToolsList(w, raw_results)
          /\ calls' = [calls EXCEPT !.llm = @ + (IF w.key THEN 1 ELSE 0)]
    /\ pc' = "finish"
    /\ UNCHANGED <<url, vulnerabilities, session, conn, user_id, selected_vulns,
                   task, gather, raw_results, urlscan_data, response, scan_table>>
    /\ UNCHANGED <<fnvars, dbvars>>

(* ----------------- risk, persistence and the response ----------------- *)
\* what the insert does: it commits, raises mysql.connector.Error, or raises
\* an exception of another class
INSERT_WORLDS == {"commit", "Error", "Exception"}

\* the message of the exception of another class
INSERT_EXCEPTION == <<"O", "b", "j", "e", "c", "t", " ", "o", "f", " ", "t", "y", "p", "e", " ", "b", "y", "t", "e", "s", " ", "i", "s", " ", "n", "o", "t", " ", "J", "S", "O", "N", " ", "s", "e", "r", "i", "a", "l", "i", "z", "a", "b", "l", "e">>

\* the save is attempted whatever the user
SavesAlways(uid, c) == c

\* lines 469-473: user_id is not None, and conn
Saves(uid, c) == uid # None /\ c

\* handle_exception: the body of the answer with status code 500
handle_exception(msg) == [status |-> RESP_ERROR, message |-> msg]

\* lines 453-519: normalize, risk, save for a logged-in user, return
Finish ==
    /\ pc = "finish"
    /\ LET normalized == normalize_results(raw_results)
           risk == Risk(normalized)
           report == [status |-> RESP_SUCCESS,
                      scan_id |-> SCAN_UUID,
                      results |-> normalized,
                      urlscan |-> urlscan_data,
                      llm_summary |-> llm_summary_text,
                      user_id |-> user_id,
                      logged_in_as |-> IF TruthyInt(user_id) THEN session.email ELSE NoneStr,
                      risk_score |-> risk.risk_score,
                      risk_level |-> risk.risk_level]
           row == [scan_uuid |-> SCAN_UUID, user_id |-> user_id, url |-> url,
                   risk_score |-> risk.risk_score, risk_level |-> risk.risk_level]
       IN  IF ~Saves(user_id, conn)
           THEN /\ response' = report
                /\ pc' = "completed"
                /\ UNCHANGED <<scan_table, calls>>
           ELSE \E w \in INSERT_WORLDS :
                   /\ calls' = [calls EXCEPT !.insert = @ + 1]
                   /\ scan_table' = IF w = "commit" THEN Append(scan_table, row)
                                    ELSE scan_table
                   /\ IF w = "Exception"
                      THEN response' = handle_exception(INSERT_EXCEPTION) /\ pc' = "crashed"
                      ELSE response' = report /\ pc' = "completed"
    /\ UNCHANGED <<url, vulnerabilities, session, conn, user_id, selected_vulns,
                   task, gather, raw_results, urlscan_data, llm_summary_text, tools_list>>
    /\ UNCHANGED <<fnvars, dbvars>>

(* ------------ classify_blocked_response applied on its own ------------ *)
\* the dicts {k: v} for v in vals, and the empty dict (k absent)
Opt(k, vals) == {EmptyDict} \cup {k :> v : v \in vals}

\* excerpts of a response body
EXCERPTS ==
    { <<"<", "h", "1", ">", "W", "e", "l", "c", "o", "m", "e", "<", "/", "h", "1", ">">>,
      <<"c", "a", "p", "t", "c", "h", "a">>,
      <<"S", "o", "l", "v", "e", " ", "t", "h", "e", " ", "C", "A", "P", "T", "C", "H", "A">>,
      <<"A", "c", "c", "e", "s", "s", " ", "D", "e", "n", "i", "e", "d", " ", "|", " ", "C", "l", "o", "u", "d", "f", "l", "a", "r", "e">>,
      <<"r", "o", "b", "o", "t", "s">>,
      <<"B", "o", "t", " ", "c", "h", "a", "l", "l", "e", "n", "g", "e", ":", " ", "v", "e", "r", "i", "f", "y", " ", "y", "o", "u", " ", "a", "r", "e", " ", "h", "u", "m", "a", "n">> }

\* tool results handed to classify_blocked_response: mappings with any subset
\* of the keys it reads, and values that are not mappings
CLASSIFY_INPUTS ==
    { Dict([severity |-> <<"H", "I", "G", "H">>] @@ a @@ b @@ c @@ d @@ e) :
         a \in Opt("status_code", {None, 200, 403, 429}),
         b \in Opt("response_status_code", {200, 429}),
         c \in Opt("text_snippet", EXCERPTS \cup {<<>>}),
         d \in Opt("body_snippet", {<<"A", "c", "c", "e", "s", "s", " ", "d", "e", "n", "i", "e", "d">>, <<"O", "K">>}),
         e \in Opt("_meta", {[scan_duration_ms |-> 7]}) }
    \cup { NonDict(<<"N", "o", "n", "e">>) }

InitClassify ==
    /\ pc = "classify"
    /\ arg \in CLASSIFY_INPUTS
    /\ ret = NoResult
    /\ url \in {u \in TARGETS : ~InvalidTarget(u)}
    /\ vulnerabilities = <<>>
    /\ session = EmptyDict
    /\ conn = FALSE
    /\ user_id = None
    /\ selected_vulns = <<>>
    /\ task = <<>>
    /\ gather = [st |-> "pending", exc |-> NoExc]
    /\ raw_results = <<>>
    /\ urlscan_data = EmptyDict
    /\ llm_summary_text = <<>>
    /\ tools_list = <<>>
    /\ response = EmptyDict
    /\ scan_table = <<>>
    /\ calls = NoCalls
    /\ req = <<>>
    /\ conn_ops = {}

\* result = classify_blocked_response(result)
Classify ==
    /\ pc = "classify"
    /\ ret' = classify_blocked_response(arg)
    /\ pc' = "classified"
    /\ UNCHANGED <<arg, scanvars, dbvars>>

NextClassify == Classify

SpecClassify == InitClassify /\ [][NextClassify]_vars


(* ------ normalize_results and the risk computation on their own ------- *)
\* most findings of a report whose severities are drawn freely
MaxFindings == 4

\* what a path traversal probe returns when nothing matched: each entry of
\* its probes carries "error": None (one entry is kept, one level up)
R_PATH_TRAVERSAL ==
    Dict([severity |-> <<"L", "O", "W">>,
          probe |-> [error |-> NoneStr],
          _meta |-> [scan_duration_ms |-> 3]])

\* classified results of one probe: a failure payload (with "error") or a
\* success payload, with any subset of the fields normalize_results reads
RESULT_SHAPES ==
    { Dict(e @@ n @@ s @@ de @@ f @@ r) :
         e \in Opt("error", {<<"E", "x", "c", "e", "p", "t", "i", "o", "n">>}),
         n \in Opt("name", {<<"C", "l", "i", "c", "k", "j", "a", "c", "k", "i", "n", "g">>}),
         s \in Opt("severity", {<<"H", "I", "G", "H">>}),
         de \in Opt("description", {<<"X", "-", "F", "r", "a", "m", "e", "-", "O", "p", "t", "i", "o", "n", "s", ":", " ", "M", "I", "S", "S", "I", "N", "G">>, <<"H", "T", "T", "P", " ", "E", "r", "r", "o", "r", " ", "5", "0", "0", " ", "p", "a", "g", "e">>}),
         f \in Opt("fix", {<<"S", "e", "t", " ", "X", "-", "F", "r", "a", "m", "e", "-", "O", "p", "t", "i", "o", "n", "s", " ", "t", "o", " ", "D", "E", "N", "Y">>}),
         r \in Opt("references", {<< <<"h", "t", "t", "p", "s", ":", "/", "/", "o", "w", "a", "s", "p", ".", "o", "r", "g">> >>}) }
    \cup { classify_blocked_response(R_WAF), R_PATH_TRAVERSAL, NonDict(<<"N", "o", "n", "e">>) }

\* the severity a probe may put in its result: a str of any case, no
\* severity at all, or a value that is not a str
SEVERITY_FIELDS ==
    Opt("severity", {<<"H", "i", "g", "h">>, <<"H", "I", "G", "H">>, <<"C", "r", "i", "t", "i", "c", "a", "l">>, <<"L", "o", "w">>, NoneStr})

\* the raw_results of n probes: the first n ids of the registry, in order,
\* with the results v[1..n]
RawResults(v) == [i \in 1..Len(v) |-> [k |-> TOOLS_TABLE[i].k, v |-> v[i]]]

\* raw_results handed to normalize_results: one probe with any shape of
\* result, up to MaxFindings probes with any severities, and any number of
\* probes of the registry all with severity HIGH
REPORT_INPUTS ==
    { <<[k |-> id, v |-> r]>> : id \in {TOOLS_TABLE[1].k, TOOLS_TABLE[12].k},
                                 r \in RESULT_SHAPES }
    \cup UNION { { RawResults([i \in 1..n |-> Dict(v[i])]) :
                      v \in [1..n -> SEVERITY_FIELDS] } : n \in 1..MaxFindings }
    \cup { RawResults([i \in 1..n |-> Dict([severity |-> <<"H", "I", "G", "H">>])]) :
              n \in 1..Len(TOOLS_TABLE) }

InitReport ==
    /\ pc = "normalize"
    /\ arg \in REPORT_INPUTS
    /\ ret = NoResult
    /\ url \in {u \in TARGETS : ~InvalidTarget(u)}
    /\ vulnerabilities = <<>>
    /\ session = EmptyDict
    /\ conn = FALSE
    /\ user_id = None
    /\ selected_vulns = <<>>
    /\ task = <<>>
    /\ gather = [st |-> "pending", exc |-> NoExc]
    /\ raw_results = <<>>
    /\ urlscan_data = EmptyDict
    /\ llm_summary_text = <<>>
    /\ tools_list = <<>>
    /\ response = EmptyDict
    /\ scan_table = <<>>
    /\ calls = NoCalls
    /\ req = <<>>
    /\ conn_ops = {}

\* lines 453-465: normalized = normalize_results(raw_results), then the risk
NormalizeAndRisk ==
    /\ pc = "normalize"
    /\ LET normalized == normalize_results(arg)
           risk == Risk(normalized)
       IN  ret' = [results |-> normalized,
                   risk_score |-> risk.risk_score,
                   risk_level |-> risk.risk_level]
    /\ pc' = "normalized"
    /\ UNCHANGED <<arg, scanvars, dbvars>>

NextReport == NormalizeAndRisk

SpecReport == InitReport /\ [][NextReport]_vars

(* -------------------- _call_tool_callable on its own ------------------- *)
\* the conventions a callable may accept, by its signature: f(), f(url),
\* f(url, *, timeout), f(*, target), f(url, timeout=10), f(target),
\* f(target, timeout=10)
SIGNATURES == { {}, {1}, {2}, {3}, {1, 2}, {1, 3}, {1, 2, 3} }

\* a callable handed to _call_tool_callable: the conventions it accepts and
\* what its body does at the first, second and third call that runs it
INVOKE_INPUTS ==
    { [accepts |-> a, bodies |-> b] : a \in SIGNATURES, b \in [1..3 -> BodyOutcomes] }

InitInvoke ==
    /\ pc = "invoke"
    /\ arg \in INVOKE_INPUTS
    /\ ret = NoResult
    /\ url \in {u \in TARGETS : ~InvalidTarget(u)}
    /\ vulnerabilities = <<>>
    /\ session = EmptyDict
    /\ conn = FALSE
    /\ user_id = None
    /\ selected_vulns = <<>>
    /\ task = <<>>
    /\ gather = [st |-> "pending", exc |-> NoExc]
    /\ raw_results = <<>>
    /\ urlscan_data = EmptyDict
    /\ llm_summary_text = <<>>
    /\ tools_list = <<>>
    /\ response = EmptyDict
    /\ scan_table = <<>>
    /\ calls = NoCalls
    /\ req = <<>>
    /\ conn_ops = {}

\* line 311: _call_tool_callable(callable_obj, url) runs to its end
Invoke ==
    /\ pc = "invoke"
    /\ ret' = _call_tool_callable(arg.accepts, arg.bodies)
    /\ pc' = "invoked"
    /\ UNCHANGED <<arg, scanvars, dbvars>>

NextInvoke == Invoke

SpecInvoke == InitInvoke /\ [][NextInvoke]_vars

(* ------------- concurrent /scan requests and the connection ----------- *)
\* number of /scan requests in progress at once
NumRequests == 2

\* one /scan request: at is its position, "received", "verify_thread" (the
\* worker thread runs verify_user), "verify_done" (the thread has returned,
\* the coroutine has not resumed), "scanning" (the awaits of lines 353-450),
\* "saving" (the insert of lines 474-503 is under way) or "completed";
\* verified is what verify_user has returned
Request(at, sess, verified, uid) ==
    [at |-> at, session |-> sess, verified |-> verified, user_id |-> uid]

\* an operation in progress on conn: the request it belongs to and whether it
\* is the SELECT of verify_user or the INSERT and commit of the save
ConnOp(r, op) == [req |-> r, op |-> op]

\* the event loop runs one coroutine at a time and the insert has no await:
\* no coroutine takes a step while a request is saving
LoopFree == \A r \in 1..Len(req) : req[r].at # "saving"

InitConn ==
    /\ pc = "serving"
    /\ conn \in BOOLEAN
    /\ req \in [1..NumRequests -> {Request("received", s, None, None) : s \in SESSIONS}]
    /\ conn_ops = {}
    /\ scan_table = <<>>
    /\ url \in {u \in TARGETS : ~InvalidTarget(u)}
    /\ vulnerabilities = <<>>
    /\ session = EmptyDict
    /\ user_id = None
    /\ selected_vulns = <<>>
    /\ task = <<>>
    /\ gather = [st |-> "pending", exc |-> NoExc]
    /\ raw_results = <<>>
    /\ urlscan_data = EmptyDict
    /\ llm_summary_text = <<>>
    /\ tools_list = <<>>
    /\ response = EmptyDict
    /\ calls = NoCalls
    /\ arg = NoResult
    /\ ret = NoResult

connvars == <<pc, url, vulnerabilities, session, conn, user_id, selected_vulns, task,
              gather, raw_results, urlscan_data, llm_summary_text, tools_list,
              response, calls, fnvars>>

\* lines 315-337: request r reads its session; with email, user_id and conn
\* it hands verify_user to a worker thread, which opens its cursor on conn
ConnReceive(r) ==
    /\ LoopFree
    /\ req[r].at = "received"
    /\ IF Get(req[r].session, "email", NoneStr) \notin {NoneStr, <<>>}
          /\ TruthyInt(Get(req[r].session, "user_id", None)) /\ conn
       THEN /\ req' = [req EXCEPT ![r].at = "verify_thread"]
            /\ conn_ops' = conn_ops \cup {ConnOp(r, "verify")}
       ELSE /\ req' = [req EXCEPT ![r].at = "scanning"]
            /\ conn_ops' = conn_ops
    /\ UNCHANGED <<scan_table, connvars>>

\* lines 330-336: in the worker thread the query ends or raises, the cursor
\* is closed and verify_user returns (a raise clears the session like None); this step needs no turn of the event loop
ConnVerifyThreadEnd(r) ==
    /\ req[r].at = "verify_thread"
    /\ \E raises \in BOOLEAN :
          req' = [req EXCEPT ![r].at = "verify_done",
                             ![r].verified = IF raises THEN None
                                             ELSE VerifyRow(req[r].session.email,
                                                            req[r].session.user_id)]
    /\ conn_ops' = conn_ops \ {ConnOp(r, "verify")}
    /\ UNCHANGED <<scan_table, connvars>>

\* lines 338-345: the coroutine of r resumes with verified_id
ConnVerified(r) ==
    /\ LoopFree
    /\ req[r].at = "verify_done"
    /\ req' = [req EXCEPT ![r] =
                  IF TruthyInt(req[r].verified)
                  THEN Request("scanning", req[r].session, req[r].verified, req[r].verified)
                  ELSE Request("scanning", EmptyDict, req[r].verified, None)]
    /\ UNCHANGED <<conn_ops, scan_table, connvars>>

\* lines 450-478: the last await of r returns; the coroutine normalizes,
\* computes the risk and, for a user with conn, opens a cursor and executes
\* the INSERT
ConnSaveBegin(r) ==
    /\ LoopFree
    /\ req[r].at = "scanning"
    /\ IF Saves(req[r].user_id, conn)
       THEN /\ req' = [req EXCEPT ![r].at = "saving"]
            /\ conn_ops' = conn_ops \cup {ConnOp(r, "insert")}
       ELSE /\ req' = [req EXCEPT ![r].at = "completed"]
            /\ conn_ops' = conn_ops
    /\ UNCHANGED <<scan_table, connvars>>

\* lines 479-519: the INSERT ends, commit, the cursor is closed, the report
\* is returned
ConnSaveEnd(r) ==
    /\ req[r].at = "saving"
    /\ req' = [req EXCEPT ![r].at = "completed"]
    /\ conn_ops' = conn_ops \ {ConnOp(r, "insert")}
    /\ \E w \in INSERT_WORLDS :
          scan_table' = IF w = "commit"
                        THEN Append(scan_table, [user_id |-> req[r].user_id])
                        ELSE scan_table
    /\ UNCHANGED connvars

NextConn ==
    \E r \in 1..NumRequests :
        \/ ConnReceive(r)
        \/ ConnVerifyThreadEnd(r)
        \/ ConnVerified(r)
        \/ ConnSaveBegin(r)
        \/ ConnSaveEnd(r)

SpecConn == InitConn /\ [][NextConn]_vars

(* ----------------- fetch_urlscan_data_async on its own ---------------- *)
\* everything urlscan.io may do in one fetch
URLSCAN_INPUTS ==
    { [key |-> k, submit |-> s, uuid |-> u, polls |-> p, raises |-> x] :
        k \in BOOLEAN, s \in BOOLEAN, u \in BOOLEAN,
        p \in [1..URLSCAN_POLLS -> {200, 404}], x \in 0..URLSCAN_POLLS }

InitUrlscan ==
    /\ pc = "fetch"
    /\ arg \in URLSCAN_INPUTS
    /\ ret = NoResult
    /\ url \in {u \in TARGETS : ~InvalidTarget(u)}
    /\ vulnerabilities = <<>>
    /\ session = EmptyDict
    /\ conn = FALSE
    /\ user_id = None
    /\ selected_vulns = <<>>
    /\ task = <<>>
    /\ gather = [st |-> "pending", exc |-> NoExc]
    /\ raw_results = <<>>
    /\ urlscan_data = EmptyDict
    /\ llm_summary_text = <<>>
    /\ tools_list = <<>>
    /\ response = EmptyDict
    /\ scan_table = <<>>
    /\ calls = NoCalls
    /\ req = <<>>
    /\ conn_ops = {}

\* line 366: await fetch_urlscan_data_async(url) runs to its end
Fetch ==
    /\ pc = "fetch"
    /\ ret' = fetch_urlscan_data_async(arg)
    /\ pc' = "fetched"
    /\ UNCHANGED <<arg, scanvars, dbvars>>

NextUrlscan == Fetch

SpecUrlscan == InitUrlscan /\ [][NextUrlscan]_vars
(* --------------------------- specification ---------------------------- *)
Next ==
    \/ Receive
    \/ VerifyUser
    \/ Dispatch
    \/ \E i \in 1..(MaxReq + NumTools) : ProbeFinish(i)
    \/ FanIn
    \/ FetchUrlscan
    \/ Explain
    \/ Finish

Spec == Init /\ [][Next]_vars

(* ------------------------------ properties ---------------------------- *)
\* the ProbeIds a request asks for: those it lists, or every registered one
\* when it lists none
RequestedIds ==
    IF vulnerabilities = <<>> THEN {TOOLS_TABLE[i].k : i \in 1..NumTools}
    ELSE {vulnerabilities[i] : i \in 1..Len(vulnerabilities)}

\* the findings of the report with id v
FindingsOf(v) == {j \in 1..Len(response.results) : response.results[j].id = v}
FindingOf(v) == response.results[CHOOSE j \in 1..Len(response.results) : response.results[j].id = v]

\* the keys of a NormalizedFinding
FINDING_KEYS == {"id", "status", "name", "severity", "description", "fix",
                 "references", "details"}

\* C1: the findings of a returned report hold exactly one entry per distinct
\* requested ProbeId, whatever the outcome of each probe
C1_OneFindingPerRequestedId ==
    pc = "completed" =>
        /\ \A v \in RequestedIds : Cardinality(FindingsOf(v)) = 1
        /\ \A j \in 1..Len(response.results) : response.results[j].id \in RequestedIds

\* a report for a request that names the same registered id twice, both probes
\* having returned
C1_Witness ==
    /\ pc = "completed"
    /\ Len(vulnerabilities) = 2
    /\ vulnerabilities[1] = vulnerabilities[2]
    /\ \A i \in 1..Len(task) : task[i].st = "done" /\ task[i].started > 0
    /\ Len(response.results) = 1

\* C2: a probe that has returned its own result has that result as the
\* details of its finding, also when a sibling probe raised
C2_ProbeIsolation ==
    pc = "completed" =>
        \A i \in 1..Len(task) :
            task[i].st = "done" =>
                \E j \in 1..Len(task) :
                    /\ task[j].vuln = task[i].vuln
                    /\ task[j].st = "done"
                    /\ FindingsOf(task[i].vuln) # {}
                    /\ FindingOf(task[i].vuln).details = task[j].result

\* C3: no exception of a capability leaves the invoker
C3_InvokerCatchesAll == \A i \in 1..Len(task) : task[i].st # "raised"

\* C4: a requested probe whose capability raised is in the report as a
\* well-formed finding with status "error" and severity "Unknown"
C4_RaisingProbeReported ==
    pc = "completed" =>
        \A i \in 1..Len(task) :
            task[i].st = "raised" =>
                /\ Cardinality(FindingsOf(task[i].vuln)) = 1
                /\ DOMAIN FindingOf(task[i].vuln) = FINDING_KEYS
                /\ FindingOf(task[i].vuln).status = <<"e", "r", "r", "o", "r">>
                /\ FindingOf(task[i].vuln).severity = <<"U", "n", "k", "n", "o", "w", "n">>

\* a report of a scan in which the capability of a probe raised on each call
C4_Witness ==
    /\ pc = "completed"
    /\ \E i \in 1..Len(task) : task[i].st = "raised" /\ task[i].started = 2

\* C5: an id absent from the registry is never invoked and is reported with
\* status "error" and a "not found" message in its details
C5_NotFoundReported ==
    pc = "completed" =>
        \A i \in 1..Len(task) :
            (\A n \in 1..NumTools : TOOLS_TABLE[n].k # task[i].vuln) =>
                /\ task[i].started = 0
                /\ Cardinality(FindingsOf(task[i].vuln)) = 1
                /\ FindingOf(task[i].vuln).status = <<"e", "r", "r", "o", "r">>
                /\ FindingOf(task[i].vuln).details.isdict
                /\ "error" \in DOMAIN FindingOf(task[i].vuln).details.d
                /\ PyIn(<<"n", "o", "t", " ", "f", "o", "u", "n", "d">>, FindingOf(task[i].vuln).details.d.error)

\* C6: a request whose target lacks a scheme or a host fails at once: no
\* probe is started, no collaborator is called, nothing is saved
C6_InvalidTargetFailsAtOnce ==
    (url.scheme = <<>> \/ url.netloc = <<>>) =>
        /\ pc \in {"received", "failed"}
        /\ task = <<>>
        /\ raw_results = <<>>
        /\ calls = NoCalls
        /\ scan_table = <<>>
        /\ pc = "failed" => response.status = <<"e", "r", "r", "o", "r">> /\ response.results = <<>>

\* the failed request of a target with a scheme and no host, a logged-in
\* session and an open connection
C6_Witness ==
    /\ pc = "failed"
    /\ url.scheme # <<>>
    /\ url.netloc = <<>>
    /\ session # EmptyDict
    /\ conn

\* the keys of the report of a scan
REPORT_KEYS == {"status", "scan_id", "results", "urlscan", "llm_summary", "user_id",
                "logged_in_as", "risk_score", "risk_level"}

\* C7: every request with a valid target is answered by a report with status
\* "success" that carries scan id, results, risk and enrichment summary
C7_AlwaysSuccessReport ==
    (url.scheme # <<>> /\ url.netloc # <<>> /\ response # EmptyDict) =>
        /\ response.status = <<"s", "u", "c", "c", "e", "s", "s">>
        /\ DOMAIN response = REPORT_KEYS

\* C8: once the insert has been attempted, whatever it did, the caller gets
\* the success report with the findings and the risk of the scan
C8_PersistenceFailureContained ==
    (calls.insert > 0 /\ response # EmptyDict) =>
        /\ pc = "completed"
        /\ response.status = <<"s", "u", "c", "c", "e", "s", "s">>
        /\ response.results = normalize_results(raw_results)
        /\ response.risk_score = Risk(response.results).risk_score
        /\ response.risk_level = Risk(response.results).risk_level

OccursIgnoringCase(k, text) ==
    \E i \in 1..Len(text) :
        /\ i + Len(k) - 1 <= Len(text)
        /\ \A j \in 1..Len(k) : LowerChar(text[i + j - 1]) = k[j]

\* blocked_reasons of a classified result (empty when it carries none)
ReasonsOf(r) ==
    IF r.isdict /\ "blocked_reasons" \in DOMAIN r.d THEN r.d.blocked_reasons ELSE <<>>

\* C10: blocked_reasons is "HTTP {status}" when status is 403 or 429, followed
\* by every keyword of the fixed list, in its order, that occurs in the
\* excerpt ignoring case; 403 with "captcha" gives ["HTTP 403", "captcha"]
C10_AllReasonsRecorded ==
    (pc = "classified" /\ arg.isdict) =>
        LET status == StatusOf(arg.d)
            excerpt == SnippetOf(arg.d)
            keywords == << <<"c", "a", "p", "t", "c", "h", "a">>, <<"v", "e", "r", "i", "f", "y", " ", "y", "o", "u", " ", "a", "r", "e", " ", "h", "u", "m", "a", "n">>, <<"c", "l", "o", "u", "d", "f", "l", "a", "r", "e">>,
                           <<"b", "o", "t">>, <<"c", "h", "a", "l", "l", "e", "n", "g", "e">>, <<"a", "c", "c", "e", "s", "s", " ", "d", "e", "n", "i", "e", "d">> >>
        IN  /\ ReasonsOf(ret) =
                  (IF status = 403 THEN << <<"H", "T", "T", "P", " ", "4", "0", "3">> >>
                   ELSE IF status = 429 THEN << <<"H", "T", "T", "P", " ", "4", "2", "9">> >>
                   ELSE <<>>)
                  \o SelectSeq(keywords, LAMBDA k : OccursIgnoringCase(k, excerpt))
            /\ (status = 403 /\ excerpt = <<"c", "a", "p", "t", "c", "h", "a">>) =>
                  ReasonsOf(ret) = << <<"H", "T", "T", "P", " ", "4", "0", "3">>, <<"c", "a", "p", "t", "c", "h", "a">> >>

\* a classified result whose status and excerpt both fired, with two keywords
C10_Witness ==
    /\ pc = "classified"
    /\ arg.isdict
    /\ StatusOf(arg.d) = 429
    /\ ReasonsOf(ret) = << <<"H", "T", "T", "P", " ", "4", "2", "9">>, <<"c", "l", "o", "u", "d", "f", "l", "a", "r", "e">>, <<"a", "c", "c", "e", "s", "s", " ", "d", "e", "n", "i", "e", "d">> >>

(* ------------------- classification and normalization ----------------- *)
\* some keyword of the classifier occurs in text, ignoring case
SomeKeywordIn(text) ==
    \E k \in { <<"c", "a", "p", "t", "c", "h", "a">>, <<"v", "e", "r", "i", "f", "y", " ", "y", "o", "u", " ", "a", "r", "e", " ", "h", "u", "m", "a", "n">>, <<"c", "l", "o", "u", "d", "f", "l", "a", "r", "e">>, <<"b", "o", "t">>,
               <<"c", "h", "a", "l", "l", "e", "n", "g", "e">>, <<"a", "c", "c", "e", "s", "s", " ", "d", "e", "n", "i", "e", "d">> } : OccursIgnoringCase(k, text)

\* C11: classify replaces a result exactly when a trigger reason fired: a
\* value that is not a mapping, and a mapping with a status outside {403, 429}
\* and no keyword in its excerpt, come back as the very same result
C11_ReplacedOnlyWhenTriggered ==
    pc = "classified" =>
        /\ ~arg.isdict => ret = arg
        /\ arg.isdict =>
              LET fired == StatusOf(arg.d) \in {403, 429} \/ SomeKeywordIn(SnippetOf(arg.d))
              IN  /\ ~fired => ret = arg
                  /\ fired => ret # arg /\ "blocked_reasons" \in DOMAIN ret.d

\* a mapping with status 200, a harmless excerpt and a _meta, returned as it was
C11_Witness ==
    /\ pc = "classified"
    /\ arg.isdict
    /\ StatusOf(arg.d) = 200
    /\ SnippetOf(arg.d) = <<"<", "h", "1", ">", "W", "e", "l", "c", "o", "m", "e", "<", "/", "h", "1", ">">>
    /\ "_meta" \in DOMAIN arg.d
    /\ ret = arg

\* C12: a result of classify that carries blocked_reasons has a non-empty
\* blocked_reasons, severity "Unknown", the fixed description and remediation,
\* no references, and the _meta of the original result ({} when it had none)
C12_BlockedPayloadShape ==
    (pc = "classified" /\ ret.isdict /\ "blocked_reasons" \in DOMAIN ret.d) =>
        /\ ret.d.blocked_reasons # <<>>
        /\ ret.d.severity = <<"U", "n", "k", "n", "o", "w", "n">>
        /\ ret.d.description =
              <<"S", "c", "a", "n", " ", "c", "o", "u", "l", "d", " ", "n", "o", "t", " ", "r", "e", "t", "r", "i", "e", "v", "e", " ", "h", "e", "a", "d", "e", "r", "s", "/", "c", "o", "n", "t", "e", "n", "t", " ", "d", "u", "e", " ", "t", "o", " ", "b", "o", "t", " ", "p", "r", "o", "t", "e", "c", "t", "i", "o", "n", "/", "f", "i", "r", "e", "w", "a", "l", "l", ".">>
        /\ ret.d.fix =
              <<"M", "a", "n", "u", "a", "l", " ", "v", "e", "r", "i", "f", "i", "c", "a", "t", "i", "o", "n", " ", "r", "e", "q", "u", "i", "r", "e", "d", ";", " ", "o", "p", "t", "i", "o", "n", "a", "l", "l", "y", " ", "u", "s", "e", " ", "b", "r", "o", "w", "s", "e", "r", "-", "b", "a", "s", "e", "d", " ", "s", "c", "a", "n", " ", "m", "o", "d", "e", ".">>
        /\ ret.d.references = <<>>
        /\ ret.d._meta = (IF "_meta" \in DOMAIN arg.d THEN arg.d._meta ELSE EmptyDict)

\* a blocked payload for a result of severity HIGH that carried a _meta
C12_Witness ==
    /\ pc = "classified"
    /\ arg.isdict
    /\ arg.d.severity = <<"H", "I", "G", "H">>
    /\ "_meta" \in DOMAIN arg.d
    /\ arg.d._meta # EmptyDict
    /\ ret.isdict
    /\ "blocked_reasons" \in DOMAIN ret.d
    /\ ret.d._meta = arg.d._meta

\* C13: a finding whose details are a blocked payload of the classifier does
\* not have the status "error"
C13_BlockedIsNotError ==
    pc = "completed" =>
        \A j \in 1..Len(response.results) :
            (response.results[j].details.isdict
             /\ "blocked_reasons" \in DOMAIN response.results[j].details.d) =>
                response.results[j].status # <<"e", "r", "r", "o", "r">>

\* s equals the lower-case word k, ignoring case
EqualsIgnoringCase(s, k) ==
    /\ Len(s) = Len(k)
    /\ \A i \in 1..Len(k) : LowerChar(s[i]) = k[i]

\* the number of findings whose severity is "critical" or "high", ignoring case
CountHigh(findings) ==
    Cardinality({j \in 1..Len(findings) :
                    \/ EqualsIgnoringCase(findings[j].severity, <<"c", "r", "i", "t", "i", "c", "a", "l">>)
                    \/ EqualsIgnoringCase(findings[j].severity, <<"h", "i", "g", "h">>)})

\* the score and the level that highCount such findings give
ScoreOf(highCount) == IF highCount * 10 > 100 THEN 100 ELSE highCount * 10
LevelOf(highCount) ==
    IF highCount >= 3 THEN <<"H", "i", "g", "h">> ELSE IF highCount = 0 THEN <<"L", "o", "w">> ELSE <<"M", "e", "d", "i", "u", "m">>

\* the severities of the findings, in order
SeveritiesOf(findings) == [j \in 1..Len(findings) |-> findings[j].severity]

C15_AggregateTotal ==
    pc = "normalized" =>
        /\ ret.risk_score = ScoreOf(CountHigh(ret.results))
        /\ ret.risk_level = LevelOf(CountHigh(ret.results))

C17_StatusFromRendering ==
    pc = "normalized" =>
        \A j \in 1..Len(ret.results) :
            LET f == ret.results[j]
            IN  /\ f.status = (IF OccursIgnoringCase(<<"e", "r", "r", "o", "r">>, PyStr(f.details))
                               THEN <<"e", "r", "r", "o", "r">> ELSE <<"o", "k">>)
                /\ (f.details.isdict /\ "error" \in DOMAIN f.details.d) =>
                      f.status = <<"e", "r", "r", "o", "r">>

\* the finding of a path traversal result without an error key, whose probes
\* entry renders as 'error': None
C17_Witness ==
    /\ pc = "normalized"
    /\ Len(ret.results) = 1
    /\ ret.results[1].details = R_PATH_TRAVERSAL
    /\ "error" \notin DOMAIN ret.results[1].details.d
    /\ ret.results[1].status = <<"e", "r", "r", "o", "r">>

\* the value a mapping supplies for a field, or the placeholder
Supplied(d, k, placeholder) == IF k \in DOMAIN d THEN d[k] ELSE placeholder

\* C18: for a classified result that is a mapping, success or failure,
\* severity, description, fix and references of the finding are the values the
\* result supplies, and else "Unknown", "No description provided.", "No fix
\* recommendation available." and a list of three generic references
C18_FieldsSuppliedOrPlaceholder ==
    pc = "completed" =>
        \A j \in 1..Len(response.results) :
            LET f == response.results[j]
                d == f.details.d
            IN  f.details.isdict =>
                  /\ f.severity = Supplied(d, "severity", <<"U", "n", "k", "n", "o", "w", "n">>)
                  /\ f.description = Supplied(d, "description", <<"N", "o", " ", "d", "e", "s", "c", "r", "i", "p", "t", "i", "o", "n", " ", "p", "r", "o", "v", "i", "d", "e", "d", ".">>)
                  /\ f.fix = Supplied(d, "fix", <<"N", "o", " ", "f", "i", "x", " ", "r", "e", "c", "o", "m", "m", "e", "n", "d", "a", "t", "i", "o", "n", " ", "a", "v", "a", "i", "l", "a", "b", "l", "e", ".">>)
                  /\ IF "references" \in DOMAIN d THEN f.references = d.references
                     ELSE /\ Len(f.references) = 3
                          /\ f.references[2] = <<"C", "W", "E", " ", "R", "e", "f", "e", "r", "e", "n", "c", "e">>
                          /\ f.references[3] = <<"N", "I", "S", "T", " ", "G", "u", "i", "d", "e", "l", "i", "n", "e", "s">>

\* the name derived from a ProbeId: underscores to spaces, each word
\* capitalized
RECURSIVE TitleFrom(_, _)
TitleFrom(id, afterLetter) ==
    IF id = <<>> THEN <<>>
    ELSE LET c == IF Head(id) = "_" THEN " " ELSE Head(id)
             isLetter == \E i \in 1..Len(LOWER) : c \in {LOWER[i], UPPER[i]}
         IN  <<IF afterLetter THEN LowerChar(c) ELSE UpperChar(c)>>
             \o TitleFrom(Tail(id), isLetter)

\* C19: the name of a finding is the name its classified result supplies,
\* success or failure, and the name derived from the ProbeId only when the
\* result supplies none
C19_NameSuppliedOrDerived ==
    pc = "normalized" =>
        \A j \in 1..Len(ret.results) :
            LET f == ret.results[j]
            IN  f.name = (IF f.details.isdict /\ "name" \in DOMAIN f.details.d
                          THEN f.details.d.name
                          ELSE TitleFrom(f.id, FALSE))

\* C20: the findings follow the dispatched results one for one: the id of a
\* finding is the ProbeId and its details are the classified result of that
\* id, the very result of its probe when every probe returned
C20_DetailsUntouched ==
    pc = "completed" =>
        /\ Len(response.results) = Len(raw_results)
        /\ \A j \in 1..Len(response.results) :
              /\ response.results[j].id = raw_results[j].k
              /\ response.results[j].details = raw_results[j].v
              /\ gather.st = "results" =>
                    \E i \in 1..Len(task) :
                        /\ task[i].vuln = response.results[j].id
                        /\ task[i].st = "done"
                        /\ task[i].result = response.results[j].details

\* a report whose first finding has for details the failure payload of its
\* probe, which supplies no severity, and whose second is a blocked payload
C20_Witness ==
    /\ pc = "completed"
    /\ gather.st = "results"
    /\ Len(response.results) = 2
    /\ response.results[1].details = R_REQUEST_FAILED
    /\ response.results[2].details = classify_blocked_response(R_WAF)

(* ----------------------- dispatch and coordination -------------------- *)
\* C21: once the scan has left the gathering of the probes, no probe
\* invocation of that scan is still running
C21_FanInBarrier ==
    pc \in {"urlscan", "explain", "finish", "completed", "crashed"} =>
        \A i \in 1..Len(task) : task[i].st # "thread"

\* the distinct elements of s, in the order of their first occurrence
RECURSIVE FirstOccurrences(_)
FirstOccurrences(s) ==
    IF s = <<>> THEN <<>>
    ELSE LET d == FirstOccurrences(SubSeq(s, 1, Len(s) - 1))
         IN  IF \E i \in 1..Len(d) : d[i] = s[Len(s)] THEN d ELSE Append(d, s[Len(s)])

\* the tasks of the scan that ended by an exception
RaisedTasks == {i \in 1..Len(task) : task[i].st = "raised"}

\* the details of the finding of id v as the outcomes of the probes alone
\* determine them: the result of the last invocation for v, or, when some
\* invocation raised, the failure of the first one in request order that did
DetailsByRequestOrder(v) ==
    IF RaisedTasks = {}
    THEN task[CHOOSE i \in 1..Len(task) :
                 /\ task[i].vuln = v
                 /\ \A k \in (i + 1)..Len(task) : task[k].vuln # v].result
    ELSE LET first == CHOOSE i \in RaisedTasks : \A k \in RaisedTasks : i <= k
         IN  [isdict |-> TRUE,
              d |-> [error |-> <<"T", "o", "o", "l", " ", "r", "u", "n", " ", "f", "a", "i", "l", "e", "d", ":", " ">> \o task[first].exc.msg]]

\* C22: once every probe has finished, the findings are those that the
\* outcomes of the probes determine, whatever the order in which the probes
\* finished, and they follow the request order (first occurrence of each id)
C22_OrderIndependentReport ==
    (pc = "completed" /\ \A i \in 1..Len(task) : task[i].st \in {"done", "raised"}) =>
        LET ids == FirstOccurrences(selected_vulns)
        IN  /\ Len(response.results) = Len(ids)
            /\ \A j \in 1..Len(ids) :
                  /\ response.results[j].id = ids[j]
                  /\ response.results[j].details = DetailsByRequestOrder(ids[j])

\* the ids of the dispatched invocations, in the order of their dispatch
DispatchedIds == [i \in 1..Len(task) |-> task[i].vuln]

\* C23: a request that names no probe dispatches every registered id, each
\* once; a request that names some dispatches exactly the ids it names, in
\* its order, and no other
C23_DispatchedProbeSet ==
    pc \in {"gathering", "urlscan", "explain", "finish", "completed", "crashed"} =>
        IF vulnerabilities = <<>>
        THEN /\ {DispatchedIds[i] : i \in 1..Len(task)} =
                   {TOOLS_TABLE[n].k : n \in 1..NumTools}
             /\ Len(task) = NumTools
        ELSE DispatchedIds = vulnerabilities

\* a completed scan of a request that names no probe, every registered probe
\* having run
C23_Witness ==
    /\ pc = "completed"
    /\ vulnerabilities = <<>>
    /\ Len(task) = NumTools
    /\ \A i \in 1..Len(task) : task[i].started > 0

\* C24: external enrichment (URLScan, the LLM) is requested only after the
\* results were normalized and the risk was computed, which the scan has done
\* when it has built its response
C24_RiskBeforeEnrichment ==
    (calls.urlscan > 0 \/ calls.llm > 0) => pc \in {"completed", "crashed"}

\* the first convention, in the order 1, 2, 3, that the callable accepts
FirstAccepted(accepts) == CHOOSE k \in accepts : \A m \in accepts : k <= m

\* C25: the callable is run with the first convention it accepts and with no
\* later one, and what the invoker returns or raises is what that call did; a
\* callable that accepts none is never run
C25_FirstAcceptedConvention ==
    pc = "invoked" =>
        IF arg.accepts = {}
        THEN ret.started = 0 /\ ret.out.kind = "raise"
        ELSE /\ ret.started = 1
             /\ ret.out = arg.bodies[FirstAccepted(arg.accepts)]

\* C26: the body of a capability is started at most once by one invocation,
\* whatever it raises
C26_BodyRunsOnce == \A i \in 1..Len(task) : task[i].started <= 1

\* C27: the risk score of a report is a multiple of 10 from 0 to 100, and the
\* risk level is High exactly for a score of 30 or more, Low exactly for 0,
\* Medium exactly for 10 and 20
C27_LevelConsistentWithScore ==
    pc = "normalized" =>
        /\ ret.risk_score \in {10 * n : n \in 0..10}
        /\ ret.risk_level = <<"H", "i", "g", "h">> <=> ret.risk_score >= 30
        /\ ret.risk_level = <<"L", "o", "w">> <=> ret.risk_score = 0
        /\ ret.risk_level = <<"M", "e", "d", "i", "u", "m">> <=> ret.risk_score \in {10, 20}

\* C28: the connection is never used by two requests at once: while the
\* verification query of one request runs, no other request has a query, an
\* insert or a commit under way on it
C28_ConnectionNotShared ==
    \A a \in conn_ops : \A b \in conn_ops :
        ~(a.op = "verify" /\ b.req # a.req)

\* the session's (email, user_id) pair is a row of the users table with id u
SessionMatches(sess, u) ==
    /\ "email" \in DOMAIN sess
    /\ \E r \in USERS : r.id = u /\ r.email = sess.email /\ sess.user_id = u

\* the step of the verification: a pair that matches no row, or a
\* verification that raises, clears the session and leaves a guest; a user id
\* is kept only for a matching pair, with the session untouched
VerificationStep ==
    pc = "verifying" =>
        /\ ~SessionMatches(session, session.user_id) =>
              (session' = EmptyDict /\ user_id' = None)
        /\ user_id' # None =>
              (SessionMatches(session, user_id') /\ session' = session)
        /\ user_id' = None => session' = EmptyDict

\* what is stored and returned agrees with the verification: a stored row
\* carries the id the session's pair matched during this request; a request
\* left as a guest stores nothing and still returns its report, user_id null
PersistedOnlyVerified ==
    /\ \A i \in 1..Len(scan_table) :
          /\ calls.verify = 1
          /\ scan_table[i].user_id = user_id
          /\ SessionMatches(session, scan_table[i].user_id)
    /\ (user_id # None) => (calls.verify = 1 /\ SessionMatches(session, user_id))
    /\ (pc \in {"completed", "crashed"} /\ user_id = None) =>
          /\ pc = "completed"
          /\ scan_table = <<>>
          /\ calls.insert = 0
          /\ response.status = RESP_SUCCESS
          /\ response.user_id = None

IsUrlscanError(d) == "error" \in DOMAIN d /\ d._source = URLSCAN_SOURCE

\* the polls of w answered with 200
PollsAnswered(w) == {i \in 1..URLSCAN_POLLS : w.polls[i] = 200}

\* the first poll answered with 200 is poll i and nothing raised up to it
FirstAnswerAt(w, i) ==
    /\ i \in PollsAnswered(w)
    /\ \A k \in PollsAnswered(w) : i <= k
    /\ (w.raises = 0 \/ w.raises > i)

\* C30: the URLScan fetch always ends with a mapping: after a successful
\* submission it polls at most 5 times, returns the data of the first poll
\* answered with 200, and the error mapping "URLScan result not ready" when
\* none of the 5 polls is; a missing key, a failed submission, a missing uuid
\* or a raised exception yields an error mapping
C30_UrlscanAlwaysAMapping ==
    pc = "fetched" =>
        /\ ret.n <= 5
        /\ "_source" \in DOMAIN ret.data /\ ret.data._source = URLSCAN_SOURCE
        /\ (~arg.key \/ ~arg.submit \/ ~arg.uuid) =>
              (IsUrlscanError(ret.data) /\ ret.n = 0)
        /\ (arg.key /\ arg.submit /\ arg.uuid) =>
              IF \E i \in 1..URLSCAN_POLLS : FirstAnswerAt(arg, i)
              THEN /\ "error" \notin DOMAIN ret.data
                   /\ FirstAnswerAt(arg, ret.n)
              ELSE IF arg.raises # 0
              THEN IsUrlscanError(ret.data) /\ ret.n = arg.raises
              ELSE /\ IsUrlscanError(ret.data)
                   /\ ret.data.error = <<"U", "R", "L", "S", "c", "a", "n", " ", "r", "e", "s", "u", "l", "t", " ", "n", "o", "t", " ", "r", "e", "a", "d", "y">>
                   /\ ret.n = 5

\* a fetch whose fourth poll is the first answered with 200, a later one too
C30_Witness ==
    /\ pc = "fetched"
    /\ arg.key /\ arg.submit /\ arg.uuid /\ arg.raises = 0
    /\ PollsAnswered(arg) = {4, 5}
    /\ ret.n = 4
    /\ "error" \notin DOMAIN ret.data
=============================================================================
